---- MODULE Spec2Model ----
(***************************************************************************)
(* Model of custom_components/monitor_docker/__init__.py: the YAML import  *)
(* (async_setup), the config entry life cycle (async_setup_entry,          *)
(* async_unload_entry) and the config entry migration                      *)
(* (async_migrate_entry).                                                  *)
(*                                                                         *)
(* DockerAPI (helpers.py), the constants (const.py) and DockerConfigFlow   *)
(* (config_flow.py) are collaborators: every call into them is an input    *)
(* whose outcome is drawn from the outcomes the caller can observe.        *)
(* "Exception" stands for any Exception subclass other than                *)
(* ConfigEntryAuthFailed.                                                  *)
(***************************************************************************)
EXTENDS Integers, Sequences, FiniteSets, TLC

\* ------------------------------------------------------------------ bounds
MaxHosts == 2        \* YAML host entries under monitor_docker
MaxLen == 1          \* length of a configured monitored_conditions list
MaxSetups == 3       \* calls of async_setup_entry in one behaviour
MaxVersion == 3      \* largest major version, stored or installed
MaxMinor == 2        \* largest minor version, stored or installed
MaxMigrations == 2   \* calls of async_migrate_entry in one behaviour

VARIABLES
    \* async_setup
    MONITORED_CONDITIONS_LIST, \* the shared list of const.py
    domainInConfig,            \* DOMAIN in config
    input,                     \* config[DOMAIN] as handed to async_setup
    config,                    \* config[DOMAIN], whose entries are mutated in place
    flows,                     \* data of the import flows started, in order
    setupPc,                   \* "start" | "done"
    setupReturn,               \* return value of async_setup
    \* async_setup_entry / async_unload_entry
    entryName,                 \* entry.data[CONF_NAME] of each config entry
    hassDomain,                \* DOMAIN in hass.data
    hassData,                  \* hass.data[DOMAIN][name]
    apis,                      \* the DockerAPI objects constructed so far
    pc,                        \* position of each entry's handler
    api,                       \* local variable api of async_setup_entry
    raisedBy,                  \* step of the try block that raised
    raisedExc,                 \* what it raised
    outcome,                   \* what the caller of async_setup_entry received
    steps,                     \* steps started by the current async_setup_entry
    destroyCalls,              \* destroy() calls made by the current async_setup_entry
    forwarded,                 \* platforms set up by the current async_setup_entry
    unloadReturn,              \* return value of the last async_unload_entry
    nSetups,                   \* calls of async_setup_entry so far
    \* async_migrate_entry
    installed,                 \* DockerConfigFlow.VERSION / MINOR_VERSION
    entry,                     \* the config entry: version, minor_version, data
    before,                    \* the entry as the last call found it
    migrateReturn,             \* return value of the last call
    updateCalls,               \* async_update_entry calls made by the last call
    nMigrations                \* calls of async_migrate_entry so far

setupVars == <<MONITORED_CONDITIONS_LIST, domainInConfig, input, config, flows,
               setupPc, setupReturn>>
entryVars == <<entryName, hassDomain, hassData, apis, pc, api, raisedBy, raisedExc,
               outcome, steps, destroyCalls, forwarded, unloadReturn, nSetups>>
migrateVars == <<installed, entry, before, migrateReturn, updateCalls, nMigrations>>
vars == <<setupVars, entryVars, migrateVars>>

\* ------------------------------------------------------------ generic lists
Range(s) == {s[i] : i \in 1..Len(s)}

NoDuplicates(s) == \A i, j \in 1..Len(s) : i # j => s[i] # s[j]

SeqsUpTo(S, n) == UNION {[1..k -> S] : k \in 0..n}

\* list.remove(x): drops the first occurrence of x
RECURSIVE Remove(_, _)
Remove(s, x) ==
    IF s = <<>> THEN <<>>
    ELSE IF Head(s) = x THEN Tail(s)
    ELSE <<Head(s)>> \o Remove(Tail(s), x)

\* ============================================================= async_setup
CONTAINER_INFO_ALLINONE == "allinone"

Conditions == {"allinone", "state", "memory"}

\* const.py is not part of the sources; the list is any duplicate-free list of
\* conditions that holds allinone (line 118: "also contains allinone", and
\* line 123 removes it without a guard)
ConditionLists ==
    {l \in SeqsUpTo(Conditions, Cardinality(Conditions)) :
        NoDuplicates(l) /\ CONTAINER_INFO_ALLINONE \in Range(l)}

\* CONFIG_SCHEMA / DOCKER_SCHEMA: a list of host entries, each with a name (here
\* its position in the YAML list) and a monitored_conditions list of members
\* of the shared list
ConfigsOver(mcl) ==
    UNION {{[i \in 1..n |-> [name |-> i, monitored_conditions |-> cs[i]]] :
               cs \in [1..n -> SeqsUpTo(Range(mcl), MaxLen)]} : n \in 0..MaxHosts}

\* lines 119-123, with the list as mutated in place by a missing copy()
EmptyCase_NoCopy(mcl) ==
    [conds |-> Remove(mcl, CONTAINER_INFO_ALLINONE),
     shared |-> Remove(mcl, CONTAINER_INFO_ALLINONE)]

\* lines 119-123: the copy of the shared list, without allinone
EmptyCase(mcl) ==
    [conds |-> Remove(mcl, CONTAINER_INFO_ALLINONE), shared |-> mcl]

\* lines 126-132: only allinone configured, expand to the whole list
ExpandCase(conds, mcl) ==
    IF Len(conds) = 1 /\ CONTAINER_INFO_ALLINONE \in Range(conds)
    THEN mcl \o <<CONTAINER_INFO_ALLINONE>>
    ELSE conds

\* lines 118-132: the fix-up of one entry; the second test sees the result of
\* the first
FixUp(e, mcl) ==
    LET first == IF Len(e.monitored_conditions) = 0
                 THEN EmptyCase(mcl)
                 ELSE [conds |-> e.monitored_conditions, shared |-> mcl]
    IN [entry |-> [e EXCEPT !.monitored_conditions = ExpandCase(first.conds, first.shared)],
        shared |-> first.shared]

\* lines 117-144: the loop over config[DOMAIN]; `returned` is set by the
\* return statement that ends the first iteration (line 144)
RECURSIVE Loop(_, _, _, _)
Loop(i, cfg, mcl, started) ==
    IF i > Len(cfg)
    THEN [config |-> cfg, shared |-> mcl, flows |-> started]
    ELSE LET f == FixUp(cfg[i], mcl)
             cfg2 == [cfg EXCEPT ![i] = f.entry]
             started2 == Append(started, f.entry)
             returned == TRUE
         IN IF returned
            THEN [config |-> cfg2, shared |-> f.shared, flows |-> started2]
            ELSE Loop(i + 1, cfg2, f.shared, started2)

\* lines 110-146
AsyncSetup ==
    /\ setupPc = "start"
    /\ IF ~domainInConfig
       THEN UNCHANGED <<config, MONITORED_CONDITIONS_LIST, flows>>
       ELSE LET r == Loop(1, config, MONITORED_CONDITIONS_LIST, <<>>)
            IN /\ config' = r.config
               /\ MONITORED_CONDITIONS_LIST' = r.shared
               /\ flows' = r.flows
    /\ setupReturn' = TRUE
    /\ setupPc' = "done"
    /\ UNCHANGED <<domainInConfig, input, entryVars, migrateVars>>

\* ======================================= async_setup_entry, async_unload_entry
Entries == {"entry1", "entry2"}

HostNames == {"docker1", "docker2"}

PLATFORMS == {"button", "sensor", "switch"}

None == 0

NoHost == [present |-> FALSE]

\* what a call into DockerAPI or into the platform forwarding can end with
CallOutcomes == {"ok", "ConfigEntryAuthFailed", "Exception"}

\* DockerAPI(hass, entry.data), line 159
NewApi(e) == [name |-> entryName[e], owner |-> e, init |-> "new", run |-> "new",
              destroyed |-> 0]

\* api.destroy(): completes, and may be called on an API whose init() failed
Destroy(list, a) == [list EXCEPT ![a].destroyed = @ + 1]

\* lines 168-178 with the two except clauses in the wrong order: every
\* exception is reported as ConfigEntryNotReady
ExceptClause_AuthAsNotReady(exc, a) ==
    [destroy |-> a # None, raise |-> "ConfigEntryNotReady"]

\* lines 168-178 without the destroy() of line 177
ExceptClause_NoDestroy(exc, a) ==
    IF exc = "ConfigEntryAuthFailed"
    THEN [destroy |-> FALSE, raise |-> "ConfigEntryAuthFailed"]
    ELSE [destroy |-> FALSE, raise |-> "ConfigEntryNotReady"]

\* lines 168-178: which except clause takes the exception, whether it calls
\* api.destroy(), and what it raises to the caller
ExceptClause(exc, a) ==
    IF exc = "ConfigEntryAuthFailed"
    THEN [destroy |-> FALSE, raise |-> "ConfigEntryAuthFailed"]
    ELSE [destroy |-> a # None, raise |-> "ConfigEntryNotReady"]

\* the entry state the caller (the config entries manager) derives from what
\* async_setup_entry raised
StateAfter(raise) ==
    IF raise = "ConfigEntryAuthFailed" THEN "setup_error" ELSE "setup_retry"

\* an exception leaves the try block at `step`: the handler either raises at
\* once or first awaits api.destroy()
Raise(e, step, exc, a) ==
    LET h == ExceptClause(exc, a)
    IN /\ raisedBy' = [raisedBy EXCEPT ![e] = step]
       /\ raisedExc' = [raisedExc EXCEPT ![e] = exc]
       /\ IF h.destroy
          THEN /\ pc' = [pc EXCEPT ![e] = "destroy"]
               /\ UNCHANGED outcome
          ELSE /\ pc' = [pc EXCEPT ![e] = StateAfter(h.raise)]
               /\ outcome' = [outcome EXCEPT ![e] = h.raise]

\* lines 150-160: the call of async_setup_entry up to the await of api.init()
SetupEntry(e, o) ==
    /\ pc[e] \in {"not_loaded", "setup_retry", "setup_error"}
    /\ nSetups < MaxSetups
    /\ nSetups' = nSetups + 1
    /\ hassDomain' = TRUE
    /\ destroyCalls' = [destroyCalls EXCEPT ![e] = 0]
    /\ forwarded' = [forwarded EXCEPT ![e] = {}]
    /\ IF o = "ok"
       THEN /\ apis' = Append(apis, [NewApi(e) EXCEPT !.init = "called"])
            /\ api' = [api EXCEPT ![e] = Len(apis) + 1]
            /\ steps' = [steps EXCEPT ![e] = <<"init">>]
            /\ pc' = [pc EXCEPT ![e] = "init"]
            /\ raisedBy' = [raisedBy EXCEPT ![e] = "none"]
            /\ raisedExc' = [raisedExc EXCEPT ![e] = "none"]
            /\ outcome' = [outcome EXCEPT ![e] = "none"]
       ELSE /\ api' = [api EXCEPT ![e] = None]
            /\ steps' = [steps EXCEPT ![e] = <<>>]
            /\ Raise(e, "DockerAPI", o, None)
            /\ UNCHANGED apis
    /\ UNCHANGED <<entryName, hassData, unloadReturn, setupVars, migrateVars>>

\* lines 160-161 with run() called whatever init() did
InitDone_RunAnyway(e, o) ==
    /\ pc[e] = "init"
    /\ apis' = [apis EXCEPT ![api[e]].init = IF o = "ok" THEN "done" ELSE "failed",
                            ![api[e]].run = "called"]
    /\ steps' = [steps EXCEPT ![e] = Append(@, "run")]
    /\ pc' = [pc EXCEPT ![e] = "run"]
    /\ UNCHANGED <<entryName, hassDomain, hassData, api, raisedBy, raisedExc, outcome,
                   destroyCalls, forwarded, unloadReturn, nSetups, setupVars,
                   migrateVars>>

\* lines 160-161: api.init() ends; api.run() is called if it did not raise
InitDone(e, o) ==
    /\ pc[e] = "init"
    /\ IF o = "ok"
       THEN /\ apis' = [apis EXCEPT ![api[e]].init = "done", ![api[e]].run = "called"]
            /\ steps' = [steps EXCEPT ![e] = Append(@, "run")]
            /\ pc' = [pc EXCEPT ![e] = "run"]
            /\ UNCHANGED <<raisedBy, raisedExc, outcome>>
       ELSE /\ apis' = [apis EXCEPT ![api[e]].init = "failed"]
            /\ Raise(e, "init", o, api[e])
            /\ UNCHANGED steps
    /\ UNCHANGED <<entryName, hassDomain, hassData, api, destroyCalls, forwarded,
                   unloadReturn, nSetups, setupVars, migrateVars>>

\* lines 161-167: api.run() ends; if it did not raise the API is registered in
\* hass.data and the entry is forwarded to the platforms
RunDone(e, o) ==
    /\ pc[e] = "run"
    /\ IF o = "ok"
       THEN /\ apis' = [apis EXCEPT ![api[e]].run = "done"]
            /\ hassData' = [hassData EXCEPT ![entryName[e]] =
                               [present |-> TRUE, config |-> e, api |-> api[e]]]
            /\ steps' = [steps EXCEPT ![e] = @ \o <<"register", "forward">>]
            /\ pc' = [pc EXCEPT ![e] = "forward"]
            /\ UNCHANGED <<raisedBy, raisedExc, outcome>>
       ELSE /\ apis' = [apis EXCEPT ![api[e]].run = "failed"]
            /\ Raise(e, "run", o, api[e])
            /\ UNCHANGED <<hassData, steps>>
    /\ UNCHANGED <<entryName, hassDomain, api, destroyCalls, forwarded, unloadReturn,
                   nSetups, setupVars, migrateVars>>

\* lines 167-180: async_forward_entry_setups ends, having set up the platforms
\* `done`: all of them if it did not raise
ForwardDone(e, o, done) ==
    /\ pc[e] = "forward"
    /\ IF o = "ok" THEN done = PLATFORMS ELSE done # PLATFORMS
    /\ forwarded' = [forwarded EXCEPT ![e] = done]
    /\ IF o = "ok"
       THEN /\ pc' = [pc EXCEPT ![e] = "loaded"]
            /\ outcome' = [outcome EXCEPT ![e] = "True"]
            /\ UNCHANGED <<raisedBy, raisedExc>>
       ELSE Raise(e, "forward", o, api[e])
    /\ UNCHANGED <<entryName, hassDomain, hassData, apis, api, steps, destroyCalls,
                   unloadReturn, nSetups, setupVars, migrateVars>>

\* lines 177-178: api.destroy() ends and ConfigEntryNotReady is raised
DestroyDone(e) ==
    /\ pc[e] = "destroy"
    /\ apis' = Destroy(apis, api[e])
    /\ destroyCalls' = [destroyCalls EXCEPT ![e] = @ + 1]
    /\ outcome' = [outcome EXCEPT ![e] = "ConfigEntryNotReady"]
    /\ pc' = [pc EXCEPT ![e] = StateAfter("ConfigEntryNotReady")]
    /\ UNCHANGED <<entryName, hassDomain, hassData, api, raisedBy, raisedExc, steps,
                   forwarded, unloadReturn, nSetups, setupVars, migrateVars>>

\* lines 184-189: destroy() of the API registered under the entry's name
UnloadEntry(e) ==
    /\ pc[e] = "loaded"
    /\ hassData[entryName[e]].present
    /\ apis' = Destroy(apis, hassData[entryName[e]].api)
    /\ pc' = [pc EXCEPT ![e] = "unload_platforms"]
    /\ UNCHANGED <<entryName, hassDomain, hassData, api, raisedBy, raisedExc, outcome,
                   steps, destroyCalls, forwarded, unloadReturn, nSetups, setupVars,
                   migrateVars>>

\* line 191: the result of async_unload_platforms is returned
UnloadPlatformsDone(e, ok) ==
    /\ pc[e] = "unload_platforms"
    /\ unloadReturn' = [unloadReturn EXCEPT ![e] = IF ok THEN "True" ELSE "False"]
    /\ pc' = [pc EXCEPT ![e] = IF ok THEN "not_loaded" ELSE "failed_unload"]
    /\ UNCHANGED <<entryName, hassDomain, hassData, apis, api, raisedBy, raisedExc,
                   outcome, steps, destroyCalls, forwarded, nSetups, setupVars,
                   migrateVars>>

\* ====================================================== async_migrate_entry
DataValues == {[name |-> "docker1"], [name |-> "docker1", certpath |-> "/certs"]}

Versions == [version : 1..MaxVersion, minor_version : 0..MaxMinor]

\* lines 219-238 without the minor version test of lines 227-238
Downgrade_MajorOnly(v, inst) == v.version > inst.version

\* lines 219-238: the two tests that end the migration with False
Downgrade(v, inst) ==
    \/ v.version > inst.version
    \/ v.version = inst.version /\ v.minor_version > inst.minor_version

\* lines 216 and 248-261: new_data is a copy of entry.data, and no migration
\* step changes it (the body for version 1 is `pass`)
MigrateData(en) == IF en.version = 1 THEN en.data ELSE en.data

\* lines 202-287
AsyncMigrateEntry ==
    /\ nMigrations < MaxMigrations
    /\ nMigrations' = nMigrations + 1
    /\ before' = entry
    /\ IF Downgrade(entry, installed)
       THEN /\ migrateReturn' = "False"
            /\ updateCalls' = 0
            /\ UNCHANGED entry
       ELSE /\ entry' = [version |-> installed.version,
                         minor_version |-> installed.minor_version,
                         data |-> MigrateData(entry)]
            /\ updateCalls' = 1
            /\ migrateReturn' = "True"
    /\ UNCHANGED <<installed, setupVars, entryVars>>

\* ============================================================ specifications
SetupIdle ==
    /\ MONITORED_CONDITIONS_LIST = <<CONTAINER_INFO_ALLINONE>>
    /\ domainInConfig = FALSE
    /\ input = <<>>
    /\ config = <<>>
    /\ flows = <<>>
    /\ setupPc = "idle"
    /\ setupReturn = "none"

EntryIdle ==
    /\ entryName = [e \in Entries |-> "docker1"]
    /\ hassDomain = FALSE
    /\ hassData = [n \in HostNames |-> NoHost]
    /\ apis = <<>>
    /\ pc = [e \in Entries |-> "idle"]
    /\ api = [e \in Entries |-> None]
    /\ raisedBy = [e \in Entries |-> "none"]
    /\ raisedExc = [e \in Entries |-> "none"]
    /\ outcome = [e \in Entries |-> "none"]
    /\ steps = [e \in Entries |-> <<>>]
    /\ destroyCalls = [e \in Entries |-> 0]
    /\ forwarded = [e \in Entries |-> {}]
    /\ unloadReturn = [e \in Entries |-> "none"]
    /\ nSetups = 0

MigrateIdle ==
    /\ installed = [version |-> 1, minor_version |-> 0]
    /\ entry = [version |-> 1, minor_version |-> 0, data |-> [name |-> "docker1"]]
    /\ before = entry
    /\ migrateReturn = "none"
    /\ updateCalls = 0
    /\ nMigrations = MaxMigrations

\* the YAML import: any shared list, any configuration the schema accepts
InitSetup ==
    /\ MONITORED_CONDITIONS_LIST \in ConditionLists
    /\ domainInConfig \in BOOLEAN
    /\ input \in IF domainInConfig THEN ConfigsOver(MONITORED_CONDITIONS_LIST)
                 ELSE {<<>>}
    /\ config = input
    /\ flows = <<>>
    /\ setupPc = "start"
    /\ setupReturn = "none"
    /\ EntryIdle
    /\ MigrateIdle

NextSetup == AsyncSetup

SpecSetup == InitSetup /\ [][NextSetup]_vars

\* the config entries: two entries, whose host names may be equal
Init ==
    /\ entryName \in {f \in [Entries -> HostNames] : f["entry1"] = "docker1"}
    /\ hassDomain = FALSE
    /\ hassData = [n \in HostNames |-> NoHost]
    /\ apis = <<>>
    /\ pc = [e \in Entries |-> "not_loaded"]
    /\ api = [e \in Entries |-> None]
    /\ raisedBy = [e \in Entries |-> "none"]
    /\ raisedExc = [e \in Entries |-> "none"]
    /\ outcome = [e \in Entries |-> "none"]
    /\ steps = [e \in Entries |-> <<>>]
    /\ destroyCalls = [e \in Entries |-> 0]
    /\ forwarded = [e \in Entries |-> {}]
    /\ unloadReturn = [e \in Entries |-> "none"]
    /\ nSetups = 0
    /\ SetupIdle
    /\ MigrateIdle

Next ==
    \/ \E e \in Entries, o \in CallOutcomes : SetupEntry(e, o)
    \/ \E e \in Entries, o \in CallOutcomes : InitDone(e, o)
    \/ \E e \in Entries, o \in CallOutcomes : RunDone(e, o)
    \/ \E e \in Entries, o \in CallOutcomes, done \in SUBSET PLATFORMS :
          ForwardDone(e, o, done)
    \/ \E e \in Entries : DestroyDone(e)
    \/ \E e \in Entries : UnloadEntry(e)
    \/ \E e \in Entries, ok \in BOOLEAN : UnloadPlatformsDone(e, ok)

Spec == Init /\ [][Next]_vars

\* the migration: any stored and any installed version
InitMigrate ==
    /\ installed \in Versions
    /\ \E v \in Versions, d \in DataValues :
          entry = [version |-> v.version, minor_version |-> v.minor_version, data |-> d]
    /\ before = entry
    /\ migrateReturn = "none"
    /\ updateCalls = 0
    /\ nMigrations = 0
    /\ SetupIdle
    /\ EntryIdle

NextMigrate == AsyncMigrateEntry

SpecMigrate == InitMigrate /\ [][NextMigrate]_vars

\* ==================================================================== claims
Ended(e) == outcome[e] # "none"

Allocated == 1..Len(apis)

\* init() and run() completed and destroy() has not been called
Running(a) == apis[a].init = "done" /\ apis[a].run = "done" /\ apis[a].destroyed = 0

IsPrefix(s, t) == Len(s) <= Len(t) /\ \A i \in 1..Len(s) : s[i] = t[i]

\* C1: when async_setup_entry has ended, the caller received
\* ConfigEntryAuthFailed exactly when a step of the try block raised
\* ConfigEntryAuthFailed, ConfigEntryNotReady exactly when a step raised any
\* other exception, and True exactly when no step raised.
C1_AuthDistinctFromNotReady ==
    \A e \in Entries :
        Ended(e) =>
            /\ outcome[e] = "ConfigEntryAuthFailed" <=> raisedExc[e] = "ConfigEntryAuthFailed"
            /\ outcome[e] = "ConfigEntryNotReady" <=> raisedExc[e] = "Exception"
            /\ outcome[e] = "True" <=> raisedExc[e] = "none"

\* one entry failed to authenticate while its platforms were set up, the other
\* failed in init() with another exception
C1_Witness ==
    /\ outcome["entry1"] = "ConfigEntryAuthFailed" /\ raisedBy["entry1"] = "forward"
    /\ outcome["entry2"] = "ConfigEntryNotReady" /\ raisedBy["entry2"] = "init"

\* C2: when async_setup_entry ended with ConfigEntryAuthFailed after the
\* DockerAPI was constructed, destroy() has been called on that DockerAPI.
C2_DestroyedOnAuthFailure ==
    \A e \in Entries :
        outcome[e] = "ConfigEntryAuthFailed" /\ api[e] # None
            => apis[api[e]].destroyed >= 1

\* C3: an async_setup_entry never calls destroy() twice, and when it has ended
\* on a non-authentication exception raised after the DockerAPI was
\* constructed it has called destroy() on that DockerAPI exactly once and the
\* caller received ConfigEntryNotReady; while destroy() is awaited the caller
\* has received nothing yet.
C3_DestroyedOnceThenNotReady ==
    \A e \in Entries :
        /\ destroyCalls[e] <= 1
        /\ pc[e] = "destroy" => ~Ended(e) /\ destroyCalls[e] = 0
        /\ Ended(e) /\ raisedExc[e] = "Exception" /\ api[e] # None
              => /\ destroyCalls[e] = 1
                 /\ apis[api[e]].destroyed >= 1
                 /\ outcome[e] = "ConfigEntryNotReady"

\* init() failed, run() was never started, and destroy() was called
C3_Witness ==
    \E e \in Entries :
        /\ outcome[e] = "ConfigEntryNotReady" /\ raisedBy[e] = "init"
        /\ apis[api[e]].init = "failed" /\ apis[api[e]].run = "new"
        /\ destroyCalls[e] = 1

\* C4: the steps an async_setup_entry has started are a prefix of init, run,
\* register, forward; run() is called on an API only after its init()
\* completed; an API is registered only after its init() and run() completed;
\* a platform is set up only after the registration.
C4_StepOrder ==
    /\ \A e \in Entries :
          /\ IsPrefix(steps[e], <<"init", "run", "register", "forward">>)
          /\ forwarded[e] # {} =>
                /\ "register" \in Range(steps[e])
                /\ apis[api[e]].init = "done" /\ apis[api[e]].run = "done"
                /\ hassData[entryName[e]].present
    /\ \A a \in Allocated :
          /\ apis[a].run # "new" => apis[a].init = "done"
          /\ apis[a].init \in {"called", "failed"} => apis[a].run = "new"
    /\ \A n \in HostNames :
          hassData[n].present =>
              apis[hassData[n].api].init = "done" /\ apis[hassData[n].api].run = "done"

\* one entry went through all four steps, the other stopped at a failed init()
C4_Witness ==
    /\ pc["entry1"] = "loaded" /\ forwarded["entry1"] = PLATFORMS
    /\ steps["entry1"] = <<"init", "run", "register", "forward">>
    /\ raisedBy["entry2"] = "init" /\ steps["entry2"] = <<"init">>

\* C6: each host name has at most one DockerAPI whose init() and run()
\* completed and that is not destroyed, and a registered API that is still
\* running is never replaced in hass.data.
C6_OneRunningApiPerHost ==
    /\ [](\A n \in HostNames :
            Cardinality({a \in Allocated : apis[a].name = n /\ Running(a)}) <= 1)
    /\ [][\A n \in HostNames :
            hassData[n].present /\ hassData'[n] # hassData[n]
                => ~Running(hassData[n].api)]_vars

\* C9: every DockerAPI registered in hass.data is live: its init() and run()
\* completed and destroy() has not been called on it.
C9_RegisteredApiIsLive ==
    \A n \in HostNames : hassData[n].present => Running(hassData[n].api)

\* the list without every occurrence of allinone
WithoutAllInOne(l) == SelectSeq(l, LAMBDA c : c # CONTAINER_INFO_ALLINONE)

\* what async_setup is said to hand to the import flow for a configured list
Normalized(conds, mcl) ==
    IF conds = <<>> THEN WithoutAllInOne(mcl)
    ELSE IF conds = <<CONTAINER_INFO_ALLINONE>>
         THEN [i \in 1..(Len(mcl) + 1) |->
                  IF i <= Len(mcl) THEN mcl[i] ELSE CONTAINER_INFO_ALLINONE]
         ELSE conds

\* C5: for a configuration with N >= 1 host entries async_setup returns True
\* having started N import flows, the i-th carrying the i-th entry.
C5_OneFlowPerHost ==
    setupPc = "done" /\ domainInConfig /\ Len(input) >= 1 =>
        /\ setupReturn = TRUE
        /\ Len(flows) = Len(input)
        /\ \A i \in 1..Len(input) : flows[i].name = input[i].name

C10_NoDuplicateConditions ==
    setupPc = "done" =>
        \A i \in 1..Len(flows) :
            NoDuplicates(input[i].monitored_conditions)
                => NoDuplicates(flows[i].monitored_conditions)

\* (version, minor_version) as one number, ordered lexicographically
Rank(v) == v.version * (MaxMinor + 2) + v.minor_version

\* C8: async_migrate_entry returns False, without calling async_update_entry
\* and leaving the entry as it was, exactly when the stored version is
\* lexicographically greater than the installed one; otherwise it returns True
\* and the entry has the installed version and its data unchanged; a migration
\* that follows one that returned True returns True and changes nothing.
C8_NoDowngrade ==
    /\ [](migrateReturn # "none" =>
            /\ migrateReturn = "False" <=> Rank(before) > Rank(installed)
            /\ migrateReturn = "False" => entry = before /\ updateCalls = 0
            /\ migrateReturn = "True" =>
                  /\ entry.version = installed.version
                  /\ entry.minor_version = installed.minor_version
                  /\ entry.data = before.data)
    /\ [][migrateReturn = "True" => migrateReturn' = "True" /\ entry' = entry]_vars

\* an older entry has been migrated, and then migrated again
C8_Witness ==
    /\ nMigrations >= 2
    /\ migrateReturn = "True"
    /\ updateCalls = 1
    /\ before = entry
    /\ Rank(entry) = Rank(installed)

====
